---------------------------- MODULE Spec2Model ----------------------------
(*************************************************************************)
(* A model of the frame arena and the work-stealing job system of        *)
(* src/src/Arena_Allocator.cpp.                                          *)
(*                                                                       *)
(* Threads interleave at the granularity of one access to shared memory  *)
(* (an atomic load, store, read-modify-write, or a read or write of a    *)
(* deque slot); the interleaving is sequentially consistent.  size_t is  *)
(* an unsigned integer of SizeBits bits.  Undefined behaviour (an array  *)
(* index outside jobs[0 .. MAX_JOBS-1], a call through a null function   *)
(* pointer, a dereference of a null payload) sets ub; nothing is         *)
(* modelled after it, because the program may then do anything.          *)
(*************************************************************************)
EXTENDS Integers, Sequences, FiniteSets, TLC

\* ------------------------------------------------------------ bounds
\* Width of size_t in the model (the build's is 64).
SizeBits == 12
\* Largest worker_count explored (hardware_concurrency() - 1, or 1).
MaxWorkers == 2
\* Jobs the owner of the deque harness pushes in all.
MaxPush == 3
\* Stealers of the deque harness.
NumStealers == 2
\* allocate/reset calls of one arena harness run.
MaxCalls == 4

\* Length N of the range-sum workload.
RangeN == 128
\* execute_job calls explored in one run of main's two sums (no run of theirs
\* on MaxWorkers workers makes more).
MaxExecutions == 8
\* execute_job calls explored in one run of a range-sum workload.
MaxRangeExecutions == 4

\* Length N of the range-sum workload whose upper half is subdivided again
\* (the smallest such N).
SkewN == 129
\* execute_job calls explored in one run of that workload.
MaxSkewExecutions == 2
\* Capacity of a frame arena that holds the payload of the driver's job and
\* one child payload, and no more.
SmallCapacity == 96
\* execute_job calls explored in one run of two range-sum jobs.
MaxPairExecutions == 2

\* ---------------------------------------------------- program constants
MAX_JOBS == 64
Threshold == 64
\* Arena frameArena(1024)
FrameCapacity == 1024
\* sizeof(SumRangeJobData), alignof(SumRangeJobData) on an LP64 build
SumRangeJobDataSize == 48
SumRangeJobDataAlign == 8

RECURSIVE Pow2(_)
Pow2(n) == IF n = 0 THEN 1 ELSE 2 * Pow2(n - 1)

\* size_t arithmetic is modulo SizeMod.
SizeMod == Pow2(SizeBits)
SizeT == 0 .. SizeMod - 1
size_add(a, b) == (a + b) % SizeMod
size_sub(a, b) == (a - b + SizeMod) % SizeMod

RECURSIVE BitAndUpTo(_, _, _)
BitAndUpTo(a, b, n) ==
    IF n = 0 THEN 0
    ELSE (IF a % 2 = 1 /\ b % 2 = 1 THEN 1 ELSE 0)
         + 2 * BitAndUpTo(a \div 2, b \div 2, n - 1)

\* a & b on size_t
size_and(a, b) == BitAndUpTo(a, b, SizeBits)
\* ~a on size_t
size_not(a) == SizeMod - 1 - a

\* The null pointer; any other pointer into the arena is its offset from memory.
NULL == -1

\* ------------------------------------------------------------- Arena
\* A roundup that leaves out the "- 1": (offset + alignment) & ~(alignment - 1)
roundup_without_minus_one(offset, alignment) ==
    size_and(size_add(offset, alignment), size_not(size_sub(alignment, 1)))

\* Arena::roundup: (offset + alignment - 1) & ~(alignment - 1)
roundup(offset, alignment) ==
    size_and(size_sub(size_add(offset, alignment), 1),
             size_not(size_sub(alignment, 1)))

\* explicit Arena(size_t cap)
Arena(cap) == [capacity |-> cap, offset |-> 0]

\* Arena::allocate: the pointer it returns and the arena it leaves.
allocate(a, size, alignment) ==
    LET aligned_offset == roundup(a.offset, alignment) IN
    IF size_add(aligned_offset, size) > a.capacity
    THEN [ptr |-> NULL, arena |-> a]
    ELSE [ptr |-> aligned_offset,
          arena |-> [a EXCEPT !.offset = size_add(aligned_offset, size)]]

\* A reset that leaves offset where it is.
reset_keeps_offset(a) == a

\* Arena::reset
reset(a) == [a EXCEPT !.offset = 0]

\* The bytes [ptr, ptr + size) a successful allocate returned.
Range(ptr, size) == [ptr |-> ptr, size |-> size]


\* ------------------------------------------------------------- state
VARIABLES
    arena,         \* frameArena: [capacity, offset]
    mem,           \* the arena's bytes: offset of a payload |-> the payload there
    ranges,        \* the byte ranges [ptr, ptr + size) the successful allocate
                   \* calls returned since the last reset, in the order returned
    resetFrom,     \* the arena before the arena harness's last reset, or NoCall
    lastAlloc,     \* the last allocate call of the arena harness, or NoCall
    calls,         \* allocate/reset calls made by the arena harness
    queue,         \* workers[w].queue: [jobs, head, tail]
    remaining,     \* counter.remaining
    result,        \* the result slots out1, out2
    worker_count,  \* worker_count of main
    pc,            \* where each thread is
    wid,           \* self->id of the worker record a thread runs worker_thread on
    loc,           \* each thread's local variables
    handed,        \* job id |-> times a pop_local or steal returned it
    spawned,       \* ids of the jobs counted into remaining so far
    done,          \* ids of the jobs whose execute_job has finished at least once
    nextId,        \* the last job id given out
    pushes,        \* push_job calls begun by the deque harness
    pushLimit,     \* push_job calls one run of the deque harness makes
    executions,    \* execute_job calls begun
    execLimit,     \* execute_job calls explored in one run
    ub             \* "none", or the undefined behaviour the run has hit

vars == <<arena, mem, ranges, resetFrom, lastAlloc, calls, queue, remaining, result, worker_count,
          pc, wid, loc, handed, spawned, done, nextId, pushes, pushLimit,
          executions, execLimit, ub>>

harnessVars == <<resetFrom, lastAlloc, calls, pushes, pushLimit, execLimit>>

Workers == 0 .. MaxWorkers - 1
\* Thread 0 is the driver (or the deque harness's owner); the others are started.
ThreadIds == 0 .. (IF MaxWorkers > NumStealers THEN MaxWorkers ELSE NumStealers)

\* ------------------------------------------------------------- jobs
\* struct Job; id is not a field of the program: it names the job in the claims.
Job(fn, data, counter, ctx, is_leaf, id) ==
    [fn |-> fn, data |-> data, counter |-> counter, ctx |-> ctx,
     is_leaf |-> is_leaf, id |-> id]

\* A zero-initialized slot of jobs[] (std::vector<Worker> workers(worker_count)).
NullJob == Job("nullptr", NULL, "nullptr", NULL, FALSE, 0)

\* struct JobQueue as main sets it up: head.store(0); tail.store(0).  jobs maps
\* the slots written so far to their jobs; every other slot of
\* jobs[0 .. MAX_JOBS-1] holds NullJob.
JobQueue == [jobs |-> <<>>, head |-> 0, tail |-> 0]
JobAt(q, s) == IF s \in DOMAIN q.jobs THEN q.jobs[s] ELSE NullJob

\* struct SumRangeJobData; ctx is the index i of contexts[i] (whose worker is
\* &workers[i]), counter is always &counter.
SumRangeJobData(array, begin, end, res, ctx) ==
    [array |-> array, begin |-> begin, end |-> end, result |-> res, ctx |-> ctx]

\* A thread's locals: t, h (pop_local, steal, push_job), i (the steal loop),
\* job (worker_thread's Job job), arg (push_job's parameter), and the locals of
\* the code that allocates payloads and pushes their jobs (main, sum_job): the
\* payloads to build (args), the pointers got (ptrs), the jobs' ids, the one in
\* hand (k), the offset allocate read (o), the worker pushed to (w), the jobs'
\* is_leaf (leaf) and where the code goes on afterwards (ret).
Loc0 ==
    [t |-> 0, h |-> 0, i |-> 0, job |-> NullJob, arg |-> NullJob,
     args |-> <<>>, ptrs |-> <<>>, ids |-> <<>>, k |-> 0, o |-> 0, w |-> 0,
     leaf |-> FALSE, ret |-> "", storedOnFull |-> FALSE]

\* Thread th is at label, and the run has not hit undefined behaviour.
At(th, label) == ub = "none" /\ pc[th] = label

Goto(th, label, l) ==
    /\ pc' = [pc EXCEPT ![th] = label]
    /\ loc' = [loc EXCEPT ![th] = l]

\* The run has hit undefined behaviour: nothing more is modelled.
Undefined(th, what) ==
    /\ ub' = what
    /\ pc' = [pc EXCEPT ![th] = "ub"]

Count(f, id) == IF id \in DOMAIN f THEN f[id] ELSE 0
\* handed counts to 2: once, or more than once.
HandOut(id) == handed' = (id :> (IF Count(handed, id) = 0 THEN 1 ELSE 2)) @@ handed
InBounds(s) == s \in 0 .. MAX_JOBS - 1

\* ------------------------------------------------------------ deque
\* What a step of pop_local, steal or push_job leaves alone.
dequeRest == <<arena, mem, ranges, remaining, result, worker_count, wid, spawned, done,
               nextId, executions, harnessVars>>

\* pop_local(q, out) by thread th on workers[q].queue, one shared access per
\* step.  It returns true at label onTrue with the job in loc.job, and false at
\* onFalse.pc with the steal loop's i set to onFalse.i.
pop_local_load_tail(th, q) ==
    /\ At(th, "pop_load_tail")
    /\ Goto(th, "pop_load_head", [loc[th] EXCEPT !.t = queue[q].tail])
    /\ UNCHANGED <<queue, handed, ub, dequeRest>>

pop_local_load_head(th, q, onFalse) ==
    /\ At(th, "pop_load_head")
    /\ IF loc[th].t = queue[q].head
       THEN Goto(th, onFalse.pc, [loc[th] EXCEPT !.t = 0, !.i = onFalse.i])
       ELSE Goto(th, "pop_store_tail", [loc[th] EXCEPT !.t = size_sub(@, 1)])
    /\ UNCHANGED <<queue, handed, ub, dequeRest>>

\* q.tail.store(t); the read of jobs[t] follows it unconditionally, so with t
\* out of bounds the behaviour is undefined from the store on.
pop_local_store_tail(th, q) ==
    /\ At(th, "pop_store_tail")
    /\ IF InBounds(loc[th].t)
       THEN /\ queue' = [queue EXCEPT ![q].tail = loc[th].t]
            /\ Goto(th, "pop_read_slot", loc[th])
            /\ UNCHANGED ub
       ELSE /\ Undefined(th, "pop_local reads jobs[t] out of bounds")
            /\ UNCHANGED <<queue, loc>>
    /\ UNCHANGED <<handed, dequeRest>>

pop_local_read_slot(th, q, onTrue) ==
    /\ At(th, "pop_read_slot")
    /\ LET out == JobAt(queue[q], loc[th].t) IN
       /\ Goto(th, onTrue, [loc[th] EXCEPT !.job = out, !.t = 0])
       /\ HandOut(out.id)
    /\ UNCHANGED <<queue, ub, dequeRest>>

pop_local(th, q, onTrue, onFalse) ==
    \/ pop_local_load_tail(th, q)
    \/ pop_local_load_head(th, q, onFalse)
    \/ pop_local_store_tail(th, q)
    \/ pop_local_read_slot(th, q, onTrue)

\* steal(victim, out) by thread th on workers[v].queue.
steal_load_head(th, v) ==
    /\ At(th, "steal_load_head")
    /\ Goto(th, "steal_load_tail", [loc[th] EXCEPT !.h = queue[v].head])
    /\ UNCHANGED <<queue, handed, ub, dequeRest>>

steal_load_tail(th, v, onFalse) ==
    /\ At(th, "steal_load_tail")
    /\ LET t == queue[v].tail IN
       IF loc[th].h >= t
       THEN Goto(th, onFalse.pc, [loc[th] EXCEPT !.h = 0, !.i = onFalse.i])
       ELSE Goto(th, "steal_cas", loc[th])
    /\ UNCHANGED <<queue, handed, ub, dequeRest>>

\* victim.head.compare_exchange_strong(h, h + 1)
\* A successful exchange is followed unconditionally by the read of jobs[h]:
\* with h out of bounds the behaviour is undefined from the exchange on.
steal_cas(th, v, onFalse) ==
    /\ At(th, "steal_cas")
    /\ IF queue[v].head # loc[th].h
       THEN /\ Goto(th, onFalse.pc, [loc[th] EXCEPT !.h = 0, !.i = onFalse.i])
            /\ UNCHANGED <<queue, ub>>
       ELSE IF InBounds(loc[th].h)
       THEN /\ queue' = [queue EXCEPT ![v].head = size_add(loc[th].h, 1)]
            /\ Goto(th, "steal_read_slot", loc[th])
            /\ UNCHANGED ub
       ELSE /\ Undefined(th, "steal reads jobs[h] out of bounds")
            /\ UNCHANGED <<queue, loc>>
    /\ UNCHANGED <<handed, dequeRest>>

steal_read_slot(th, v, onTrue) ==
    /\ At(th, "steal_read_slot")
    /\ LET out == JobAt(queue[v], loc[th].h) IN
       /\ Goto(th, onTrue, [loc[th] EXCEPT !.job = out, !.h = 0, !.i = 0])
       /\ HandOut(out.id)
    /\ UNCHANGED <<queue, ub, dequeRest>>

steal(th, v, onTrue, onFalse) ==
    \/ steal_load_head(th, v)
    \/ steal_load_tail(th, v, onFalse)
    \/ steal_cas(th, v, onFalse)
    \/ steal_read_slot(th, v, onTrue)

\* push_job(w, job) by thread th, the job in loc.arg.  It returns at label
\* onReturn with the locals after, which the caller computes from
\* Pushed(loc): its locals once push_job's own are gone.  storedOnFull records that the store to
\* jobs[t] was made while tail - head == MAX_JOBS.
Pushed(l) == [l EXCEPT !.t = 0, !.arg = NullJob]

push_job_load_tail(th, w) ==
    /\ At(th, "push_load_tail")
    /\ Goto(th, "push_write_slot", [loc[th] EXCEPT !.t = queue[w].tail])
    /\ UNCHANGED <<queue, handed, ub, dequeRest>>

push_job_write_slot(th, w) ==
    /\ At(th, "push_write_slot")
    /\ LET full == size_sub(loc[th].t, queue[w].head) = MAX_JOBS IN
       IF InBounds(loc[th].t)
       THEN /\ queue' = [queue EXCEPT ![w].jobs = (loc[th].t :> loc[th].arg) @@ @]
            /\ Goto(th, "push_store_tail", [loc[th] EXCEPT !.storedOnFull = full])
            /\ UNCHANGED ub
       ELSE /\ Undefined(th, "push_job writes jobs[t] out of bounds")
            /\ loc' = [loc EXCEPT ![th].storedOnFull = full]
            /\ UNCHANGED queue
    /\ UNCHANGED <<handed, dequeRest>>

push_job_store_tail(th, w, onReturn, after) ==
    /\ At(th, "push_store_tail")
    /\ queue' = [queue EXCEPT ![w].tail = size_add(loc[th].t, 1)]
    /\ Goto(th, onReturn, after)
    /\ UNCHANGED <<handed, ub, dequeRest>>

push_job(th, w, onReturn, after) ==
    \/ push_job_load_tail(th, w)
    \/ push_job_write_slot(th, w)
    \/ push_job_store_tail(th, w, onReturn, after)

\* ---------------------------------------------------- deque harness
\* One deque, workers[0].queue.  Thread 0 owns it and calls push_job and
\* pop_local in any order; the other threads call steal on it.  Every call is
\* the program's, made the way worker_thread and sum_job make it.
Stealers == 1 .. NumStealers
Idle == [pc |-> "idle", i |-> 0]
Same(l) == l

\* The job of the harness's n-th push_job call.
HarnessJob(n) == Job("sum_job", NULL, "nullptr", 0, TRUE, n)

InitHarness(limit) ==
    /\ arena = Arena(FrameCapacity)
    /\ mem = <<>>
    /\ ranges = <<>>
    /\ resetFrom = <<>>
    /\ lastAlloc = <<>>
    /\ calls = 0
    /\ queue = [w \in Workers |-> JobQueue]
    /\ remaining = 0
    /\ result = <<0, 0>>
    /\ worker_count = 1
    /\ pc = [th \in ThreadIds |-> IF th = 0 \/ th \in Stealers THEN "idle" ELSE "none"]
    /\ wid = [th \in ThreadIds |-> 0]
    /\ loc = [th \in ThreadIds |-> Loc0]
    /\ handed = <<>>
    /\ spawned = {}
    /\ done = {}
    /\ nextId = 0
    /\ pushes = 0
    /\ pushLimit = limit
    /\ executions = 0
    /\ execLimit = 0
    /\ ub = "none"

harness_call_push(th) ==
    /\ At(th, "idle")
    /\ pushes < pushLimit
    /\ pushes' = pushes + 1
    /\ Goto(th, "push_load_tail", [loc[th] EXCEPT !.arg = HarnessJob(pushes + 1)])
    /\ UNCHANGED <<arena, mem, ranges, resetFrom, lastAlloc, calls, queue,
                   remaining, result, worker_count, wid, handed, spawned, done,
                   nextId, pushLimit, executions, execLimit, ub>>

harness_call(th, first) ==
    /\ At(th, "idle")
    /\ Goto(th, first, loc[th])
    /\ UNCHANGED <<arena, mem, ranges, queue, remaining, result, worker_count, wid,
                   handed, spawned, done, nextId, executions, harnessVars, ub>>

harness_push(th) ==
    \/ harness_call_push(th)
    \/ push_job(th, 0, "idle", Same(Pushed(loc[th])))

harness_pop(th) ==
    \/ harness_call(th, "pop_load_tail")
    \/ pop_local(th, 0, "idle", Idle)

harness_steal(th) ==
    \/ harness_call(th, "steal_load_head")
    \/ steal(th, 0, "idle", Idle)

\* The owner pushes MaxPush jobs and pops; NumStealers threads steal.
InitDeque == InitHarness(MaxPush)
NextDeque ==
    \/ harness_push(0)
    \/ harness_pop(0)
    \/ \E th \in Stealers : harness_steal(th)
SpecDeque == InitDeque /\ [][NextDeque]_vars

\* The owner pushes MAX_JOBS + 1 jobs and never pops; one thread steals.
InitFill == InitHarness(MAX_JOBS + 1)
NextFill ==
    \/ harness_push(0)
    \/ harness_steal(1)
SpecFill == InitFill /\ [][NextFill]_vars

\* ------------------------------------------------- spawning jobs
\* main (lines 298-309) and sum_job (lines 161-168) run the same sequence:
\* arena_allocate each payload, add their number to counter.remaining, push_job
\* each job.  Arena::allocate is not atomic: it reads offset in one step and
\* writes it in another.
spawnRest == <<queue, result, worker_count, wid, handed, done, executions,
               harnessVars, ub>>

arena_allocate_read(th) ==
    /\ At(th, "alloc_read")
    /\ Goto(th, "alloc_write", [loc[th] EXCEPT !.o = arena.offset])
    /\ UNCHANGED <<arena, mem, ranges, remaining, spawned, nextId, spawnRest>>

arena_allocate_write(th) ==
    /\ At(th, "alloc_write")
    /\ LET l == loc[th]
           r == allocate([arena EXCEPT !.offset = l.o],
                         SumRangeJobDataSize, SumRangeJobDataAlign)
           got == [l EXCEPT !.ptrs = Append(@, r.ptr), !.o = 0]
       IN /\ IF r.ptr = NULL
             THEN UNCHANGED <<arena, mem, ranges>>
             ELSE /\ arena' = r.arena
                  /\ mem' = (r.ptr :> l.args[l.k]) @@ mem
                  /\ ranges' = Append(ranges, Range(r.ptr, SumRangeJobDataSize))
          /\ IF l.k < Len(l.args)
             THEN Goto(th, "alloc_read", [got EXCEPT !.k = l.k + 1])
             ELSE Goto(th, "spawn_fetch_add", got)
    /\ UNCHANGED <<remaining, spawned, nextId, spawnRest>>

\* The job pushed for the k-th payload.
JobOf(l, k) == Job("sum_job", l.ptrs[k], "counter", l.w, l.leaf, l.ids[k])

\* A spawn that goes on to its pushes without adding to remaining.
spawn_without_fetch_add(th) ==
    /\ At(th, "spawn_fetch_add")
    /\ LET n == Len(loc[th].args)
           l == [loc[th] EXCEPT !.ids = [j \in 1 .. n |-> nextId + j], !.k = 1]
       IN /\ nextId' = nextId + n
          /\ Goto(th, "push_load_tail", [l EXCEPT !.arg = JobOf(l, 1)])
    /\ UNCHANGED <<arena, mem, ranges, remaining, spawned, spawnRest>>

\* counter.remaining.fetch_add(n)
spawn_fetch_add(th) ==
    /\ At(th, "spawn_fetch_add")
    /\ LET n == Len(loc[th].args)
           l == [loc[th] EXCEPT !.ids = [j \in 1 .. n |-> nextId + j], !.k = 1]
       IN /\ remaining' = remaining + n
          /\ nextId' = nextId + n
          /\ spawned' = spawned \cup {nextId + j : j \in 1 .. n}
          /\ Goto(th, "push_load_tail", [l EXCEPT !.arg = JobOf(l, 1)])
    /\ UNCHANGED <<arena, mem, ranges, spawnRest>>

\* After a push_job: the next job, or the code after the last one.
AfterPush(l) ==
    IF l.k < Len(l.args)
    THEN [l EXCEPT !.k = l.k + 1, !.arg = JobOf(l, l.k + 1)]
    ELSE [l EXCEPT !.args = <<>>, !.ptrs = <<>>, !.ids = <<>>, !.k = 0,
                   !.w = 0, !.leaf = FALSE, !.ret = ""]

spawn_push_job(th) ==
    push_job(th, loc[th].w,
             IF loc[th].k < Len(loc[th].args) THEN "push_load_tail" ELSE loc[th].ret,
             AfterPush(Pushed(loc[th])))

spawn_jobs(th) ==
    \/ arena_allocate_read(th)
    \/ arena_allocate_write(th)
    \/ spawn_fetch_add(th)
    \/ spawn_push_job(th)

\* ------------------------------------------------------ sum_job
\* An int array holding first, first + 1, ... in len elements.
Array(first, len) == [first |-> first, len |-> len]
ArrayAt(array, i) == array.first + i

RECURSIVE SumRange(_, _, _)
\* for (i = begin; i < end; ++i) local += array[i]: the sum of array[begin]
\* .. array[end - 1], added up by halves to keep the recursion shallow.
SumRange(array, begin, end) ==
    IF begin >= end THEN 0
    ELSE IF end = begin + 1 THEN ArrayAt(array, begin)
    ELSE LET half == (begin + end) \div 2 IN
         SumRange(array, begin, half) + SumRange(array, half, end)

jobRest == <<queue, worker_count, wid, handed, harnessVars>>

\* execute_job: job.fn(job.data), which is sum_job up to its first shared
\* write: the fetch_add on the result, or the first arena_allocate.
execute_job_call(th) ==
    /\ At(th, "execute_fn")
    /\ executions < execLimit
    /\ executions' = executions + 1
    /\ LET job == loc[th].job IN
       IF job.fn = "nullptr"
       THEN /\ Undefined(th, "execute_job calls a null fn")
            /\ UNCHANGED <<loc, result>>
       ELSE IF job.data \notin DOMAIN mem
       THEN /\ Undefined(th, "sum_job dereferences a null payload")
            /\ UNCHANGED <<loc, result>>
       ELSE LET data == mem[job.data]
                count == size_sub(data.end, data.begin)
                mid == size_add(data.begin, count) \div 2
            IN IF count <= Threshold
               THEN IF data.end > data.array.len
                    THEN /\ Undefined(th, "sum_job reads array[i] out of bounds")
                         /\ UNCHANGED <<loc, result>>
                    ELSE /\ result' = [result EXCEPT ![data.result] =
                                @ + SumRange(data.array, data.begin, data.end)]
                         /\ Goto(th, "execute_dec", loc[th])
                         /\ UNCHANGED ub
               ELSE /\ Goto(th, "alloc_read",
                            [loc[th] EXCEPT
                               !.args = <<SumRangeJobData(data.array, data.begin, mid,
                                                          data.result, data.ctx),
                                          SumRangeJobData(data.array, mid, data.end,
                                                          data.result, data.ctx)>>,
                               !.k = 1, !.w = data.ctx, !.leaf = FALSE,
                               !.ret = "execute_dec"])
                    /\ UNCHANGED <<result, ub>>
    /\ UNCHANGED <<arena, mem, ranges, remaining, spawned, done, nextId, jobRest>>

\* execute_job after job.fn returns: if (job.is_leaf && job.counter) fetch_sub(1)
execute_job_return(th) ==
    /\ At(th, "execute_dec")
    /\ LET job == loc[th].job IN
       /\ remaining' = IF job.is_leaf /\ job.counter # "nullptr"
                       THEN remaining - 1 ELSE remaining
       /\ done' = done \cup {job.id}
    /\ Goto(th, "pop_load_tail", Loc0)
    /\ UNCHANGED <<arena, mem, ranges, result, spawned, nextId, executions, ub,
                   jobRest>>

execute_job(th) ==
    \/ execute_job_call(th)
    \/ spawn_jobs(th)
    \/ execute_job_return(th)

\* ------------------------------------------------- worker_thread
\* for (i = from; i < worker_count; ++i) { if (i == self->id) continue; ...:
\* the next victim, or the termination check when there is none.
AfterSearch(th, from) ==
    LET victims == {i \in from .. worker_count - 1 : i # wid[th]} IN
    IF victims = {}
    THEN [pc |-> "check_remaining", i |-> 0]
    ELSE [pc |-> "steal_load_head",
          i |-> CHOOSE i \in victims : \A j \in victims : i <= j]

\* if (counter->remaining.load(acquire) == 0) break; the driver's own call of
\* worker_thread returns into main, a started thread ends.
worker_check_remaining(th) ==
    /\ At(th, "check_remaining")
    /\ IF remaining = 0
       THEN Goto(th, IF th = 0 THEN "main_join" ELSE "returned", Loc0)
       ELSE Goto(th, "pop_load_tail", Loc0)
    /\ UNCHANGED <<arena, mem, ranges, queue, remaining, result, worker_count, wid,
                   handed, spawned, done, nextId, executions, harnessVars, ub>>

worker_thread(th) ==
    \/ pop_local(th, wid[th], "execute_fn", AfterSearch(th, 0))
    \/ steal(th, loc[th].i, "execute_fn", AfterSearch(th, loc[th].i + 1))
    \/ execute_job(th)
    \/ worker_check_remaining(th)

\* ---------------------------------------------------------- main
\* The state of main at line 298 with a frame arena of capacity cap: the
\* workers, the counter and the arena are set up, and the driver is about to
\* allocate the payloads of `jobs`.
InitFrame(cap, count, jobs, limit) ==
    /\ arena = Arena(cap)
    /\ mem = <<>>
    /\ ranges = <<>>
    /\ resetFrom = <<>>
    /\ lastAlloc = <<>>
    /\ calls = 0
    /\ queue = [w \in Workers |-> JobQueue]
    /\ remaining = 0
    /\ result = <<0, 0>>
    /\ worker_count = count
    /\ pc = [th \in ThreadIds |-> IF th = 0 THEN "alloc_read" ELSE "none"]
    /\ wid = [th \in ThreadIds |-> 0]
    /\ loc = [th \in ThreadIds |->
                IF th = 0
                THEN [Loc0 EXCEPT !.args = jobs, !.k = 1, !.w = 0, !.leaf = TRUE,
                                  !.ret = "main_launch"]
                ELSE Loc0]
    /\ handed = <<>>
    /\ spawned = {}
    /\ done = {}
    /\ nextId = 0
    /\ pushes = 0
    /\ pushLimit = 0
    /\ executions = 0
    /\ execLimit = limit
    /\ ub = "none"

\* main's own frame: Arena frameArena(1024).
InitMain(count, jobs, limit) == InitFrame(FrameCapacity, count, jobs, limit)

\* threads.emplace_back(worker_thread, &workers[i], ...) for i < worker_count,
\* then worker_thread(&workers[0], ...) on the driver itself.
main_launch ==
    /\ At(0, "main_launch")
    /\ LET i == loc[0].i IN
       /\ wid' = [wid EXCEPT ![i + 1] = i]
       /\ pc' = [pc EXCEPT ![i + 1] = "pop_load_tail",
                           ![0] = IF i + 1 < worker_count THEN "main_launch"
                                  ELSE "pop_load_tail"]
       /\ loc' = [loc EXCEPT ![0].i = IF i + 1 < worker_count THEN i + 1 ELSE 0]
    /\ UNCHANGED <<arena, mem, ranges, queue, remaining, result, worker_count,
                   handed, spawned, done, nextId, executions, harnessVars, ub>>

\* A driver that goes on to its check without joining the threads.
main_without_join ==
    /\ At(0, "main_join")
    /\ Goto(0, "main_check", loc[0])
    /\ UNCHANGED <<arena, mem, ranges, queue, remaining, result, worker_count, wid,
                   handed, spawned, done, nextId, executions, harnessVars, ub>>

\* for (auto& t : threads) t.join();
main_join ==
    /\ At(0, "main_join")
    /\ \A th \in 1 .. worker_count : pc[th] = "returned"
    /\ Goto(0, "main_check", loc[0])
    /\ UNCHANGED <<arena, mem, ranges, queue, remaining, result, worker_count, wid,
                   handed, spawned, done, nextId, executions, harnessVars, ub>>

\* if (counter.remaining.load(acquire) == 0) frameArena.reset();
main_check ==
    /\ At(0, "main_check")
    /\ arena' = IF remaining = 0 THEN reset(arena) ELSE arena
    /\ ranges' = IF remaining = 0 THEN <<>> ELSE ranges
    /\ Goto(0, "main_done", loc[0])
    /\ UNCHANGED <<mem, queue, remaining, result, worker_count, wid,
                   handed, spawned, done, nextId, executions, harnessVars, ub>>

main ==
    \/ spawn_jobs(0)
    \/ main_launch
    \/ main_join
    \/ main_check

\* The two leaf jobs of main, on every worker_count up to MaxWorkers.
a == Array(1, 3)
b == Array(4, 3)
TwoSums == <<SumRangeJobData(a, 0, 3, 1, 0), SumRangeJobData(b, 0, 3, 2, 0)>>

Init == \E count \in 1 .. MaxWorkers : InitMain(count, TwoSums, MaxExecutions)
Next ==
    \/ main
    \/ \E th \in ThreadIds : worker_thread(th)
Spec == Init /\ [][Next]_vars

\* One range-sum job over [0, RangeN) on the array 1 .. RangeN, pushed by the
\* driver as main pushes its jobs (is_leaf = true), with worker_count = 1: the
\* driver and the one thread it starts.  With a single worker the steal loop
\* has no victim, and no run of this workload reads remaining == 0, so steal
\* and main's join and completion check are not part of the next-state relation.
RangeSum(n) == <<SumRangeJobData(Array(1, n), 0, n, 1, 0)>>

InitRange == InitMain(1, RangeSum(RangeN), MaxRangeExecutions)
NextRange ==
    \/ spawn_jobs(0)
    \/ main_launch
    \/ \E th \in 0 .. 1 :
          \/ pop_local(th, wid[th], "execute_fn", AfterSearch(th, 0))
          \/ execute_job(th)
          \/ worker_check_remaining(th)
SpecRange == InitRange /\ [][NextRange]_vars

\* One range-sum job over [0, SkewN): its child [SkewN \div 2, SkewN) is above
\* the threshold and subdivides in its turn.
InitSkew == InitMain(1, RangeSum(SkewN), MaxSkewExecutions)
SpecSkew == InitSkew /\ [][NextRange]_vars

\* One range-sum job over [0, RangeN) on a frame arena of SmallCapacity bytes:
\* the arena is exhausted by the job's second child payload, as main's 1024
\* bytes are by the 22nd payload of a frame.
InitExhaust == InitFrame(SmallCapacity, 1, RangeSum(RangeN), MaxRangeExecutions)
SpecExhaust == InitExhaust /\ [][NextRange]_vars

\* Two range-sum jobs over [0, RangeN), each above the threshold, pushed by the
\* driver as main pushes its two jobs, with worker_count = 1.  Each job
\* subdivides, so two threads allocate child payloads from frameArena.
TwoRanges == <<SumRangeJobData(Array(1, RangeN), 0, RangeN, 1, 0),
               SumRangeJobData(Array(1, RangeN), 0, RangeN, 2, 0)>>

InitPair == InitMain(1, TwoRanges, MaxPairExecutions)
SpecPair == InitPair /\ [][NextRange]_vars

\* ------------------------------------------------- arena harness
\* One thread calls allocate and reset on an arena, MaxCalls times in all.
\* The sizes and alignments include the largest size_t can hold; the
\* capacities are ones operator new(cap) can deliver, at most half the address
\* space (it throws for more, and no Arena is constructed).
Capacities == {16, FrameCapacity, SizeMod \div 2}
AllocSizes == {0, 1, 8, SumRangeJobDataSize, SizeMod - 8, SizeMod - 1}
Alignments == {1, 8, 16, SizeMod \div 2}
NoCall == <<>>

InitArena ==
    /\ \E cap \in Capacities : arena = Arena(cap)
    /\ mem = <<>>
    /\ ranges = <<>>
    /\ resetFrom = NoCall
    /\ lastAlloc = NoCall
    /\ calls = 0
    /\ queue = [w \in Workers |-> JobQueue]
    /\ remaining = 0
    /\ result = <<0, 0>>
    /\ worker_count = 1
    /\ pc = [th \in ThreadIds |-> "none"]
    /\ wid = [th \in ThreadIds |-> 0]
    /\ loc = [th \in ThreadIds |-> Loc0]
    /\ handed = <<>>
    /\ spawned = {}
    /\ done = {}
    /\ nextId = 0
    /\ pushes = 0
    /\ pushLimit = 0
    /\ executions = 0
    /\ execLimit = 0
    /\ ub = "none"

arenaRest == <<mem, queue, remaining, result, worker_count, pc, wid, loc, handed,
               spawned, done, nextId, pushes, pushLimit, executions, execLimit, ub>>

\* arena.allocate(size, alignment); lastAlloc keeps the call: the arena before
\* it, its arguments and the pointer returned (NoCall after a reset).
arena_call_allocate ==
    /\ calls < MaxCalls
    /\ \E size \in AllocSizes : \E alignment \in Alignments :
         LET r == allocate(arena, size, alignment) IN
         /\ arena' = r.arena
         /\ ranges' = IF r.ptr = NULL THEN ranges
                      ELSE Append(ranges, Range(r.ptr, size))
         /\ lastAlloc' = [before |-> arena, size |-> size,
                          alignment |-> alignment, ptr |-> r.ptr]
    /\ calls' = calls + 1
    /\ UNCHANGED <<resetFrom, arenaRest>>

\* arena.reset()
arena_call_reset ==
    /\ calls < MaxCalls
    /\ arena' = reset(arena)
    /\ ranges' = <<>>
    /\ resetFrom' = arena
    /\ lastAlloc' = NoCall
    /\ calls' = calls + 1
    /\ UNCHANGED arenaRest

NextArena ==
    \/ arena_call_allocate
    \/ arena_call_reset
SpecArena == InitArena /\ [][NextArena]_vars

\* Fair scheduling of the threads of main: a thread that can take a step
\* eventually takes one.
FairSpec ==
    /\ Spec
    /\ WF_vars(main)
    /\ \A th \in ThreadIds : WF_vars(worker_thread(th))

\* ------------------------------------------------------- claims
HarnessQuiescent == \A th \in ThreadIds : pc[th] \in {"idle", "none"}

\* C1: every job pushed on a deque is handed out by exactly one successful
\* pop_local or steal: none is returned twice, and once the deque is empty
\* and no call is in progress every pushed job has been returned.
C1_EachJobHandedOutExactlyOnce ==
    /\ \A id \in DOMAIN handed : handed[id] <= 1
    /\ (HarnessQuiescent /\ queue[0].head >= queue[0].tail)
          => \A id \in 1 .. pushes : Count(handed, id) = 1

\* C2: a push_job on a deque that holds MAX_JOBS jobs (tail - head == MAX_JOBS)
\* is reported as DequeFull: it stores no job and does not advance tail.
C2_PushOnFullDequeIsRejected ==
    \A th \in ThreadIds : ~loc[th].storedOnFull

\* C3: in every state of every deque, head <= tail and tail - head <= MAX_JOBS.
C3_HeadTailInvariant ==
    \A w \in Workers :
        /\ queue[w].head <= queue[w].tail
        /\ queue[w].tail - queue[w].head <= MAX_JOBS

\* C4: counter.remaining equals the number of jobs spawned (counted into the
\* counter) whose execute_job has not finished yet.
C4_CounterCountsUnfinishedJobs ==
    remaining = Cardinality(spawned \ done)

\* The driver has left its own worker loop.
DriverPastLoop == pc[0] \in {"main_join", "main_check", "main_done"}
\* Thread th runs the worker loop.
InWorkerLoop(th) ==
    /\ pc[th] \notin {"none", "returned", "idle", "ub"}
    /\ th = 0 => ~DriverPastLoop /\ pc[0] # "main_launch" /\ loc[0].ret # "main_launch"

\* C5: under fair scheduling the frame drains: the driver's join completes,
\* the driver reads remaining == 0 and resets the arena.  Runs that hit
\* undefined behaviour are left aside.
C5_FrameDrains ==
    <>(\/ pc[0] = "main_done" /\ remaining = 0 /\ arena.offset = 0
       \/ ub # "none")

\* C6: in the two-sums workload each job is executed exactly once, so after
\* the driver's join r1 = 6, r2 = 15 and remaining = 0, and after the reset
\* the arena's offset is 0.
C6_TwoSumsResults ==
    /\ \A id \in DOMAIN handed : handed[id] <= 1
    /\ pc[0] \in {"main_check", "main_done"}
          => result = <<6, 15>> /\ remaining = 0 /\ done = spawned
    /\ pc[0] = "main_done" => arena.offset = 0

\* C7: the driver starts worker_count - 1 threads, and no two threads run the
\* worker loop on the same worker record.
C7_OneOwnerPerDeque ==
    /\ Cardinality({th \in ThreadIds \ {0} : pc[th] # "none"}) <= worker_count - 1
    /\ \A t1, t2 \in ThreadIds :
          (t1 # t2 /\ InWorkerLoop(t1) /\ InWorkerLoop(t2)) => wid[t1] # wid[t2]

\* Thread th is inside execute_job.
InExecuteJob(th) ==
    /\ InWorkerLoop(th)
    /\ pc[th] \in {"execute_fn", "alloc_read", "alloc_write", "spawn_fetch_add",
                   "push_load_tail", "push_write_slot", "push_store_tail",
                   "execute_dec"}
\* Thread th's termination check has read remaining == 0.
ObservedZero(th) == pc[th] = "returned" \/ (th = 0 /\ DriverPastLoop)
NoJobQueued == \A w \in Workers : queue[w].head >= queue[w].tail

\* C8: once a worker's termination check has read remaining == 0, no job is
\* queued in any deque and no thread is inside execute_job.
C8_ZeroMeansAllJobsFinished ==
    (\E th \in ThreadIds : ObservedZero(th))
        => /\ NoJobQueued
           /\ \A th \in ThreadIds : ~InExecuteJob(th)

\* Every job spawned has finished, none is queued and no thread holds one.
WorkDone ==
    /\ spawned # {}
    /\ spawned \subseteq done
    /\ NoJobQueued
    /\ \A th \in ThreadIds :
          ~InExecuteJob(th) /\ pc[th] \notin {"pop_read_slot", "steal_read_slot"}

\* C9: a range-sum job over [0, N) with N above the threshold ends with every
\* element added to the result once and the counter back at 0, and no deque
\* ever holds more than MAX_JOBS jobs.
C9_RangeSumCompletes ==
    /\ WorkDone => result[1] = SumRange(Array(1, RangeN), 0, RangeN) /\ remaining = 0
    /\ \A w \in Workers : queue[w].tail - queue[w].head <= MAX_JOBS

\* The smallest multiple of alignment that is >= offset, in the integers.
AlignUp(offset, alignment) == ((offset + alignment - 1) \div alignment) * alignment

\* C10: an allocate whose aligned offset plus size exceeds the capacity returns
\* null and leaves offset unchanged, and offset stays within 0 .. capacity.
C10_ExhaustionFailsAndKeepsOffset ==
    /\ lastAlloc # NoCall =>
          LET c == lastAlloc IN
          AlignUp(c.before.offset, c.alignment) + c.size > c.before.capacity
              => c.ptr = NULL /\ arena.offset = c.before.offset
    /\ 0 <= arena.offset /\ arena.offset <= arena.capacity

\* Two byte ranges share no byte.
Disjoint(r1, r2) ==
    \/ r1.size = 0
    \/ r2.size = 0
    \/ r1.ptr + r1.size <= r2.ptr
    \/ r2.ptr + r2.size <= r1.ptr
\* The ranges returned since the last reset are pairwise disjoint.
PairwiseDisjoint ==
    \A i, j \in DOMAIN ranges : i < j => Disjoint(ranges[i], ranges[j])
NoJobHandedTwice == \A id \in DOMAIN handed : handed[id] <= 1

\* C11: when different threads, each executing its own subdividing job,
\* allocate child payloads from the shared arena, the ranges returned since
\* the last reset are pairwise disjoint and offset lies at or above the end of
\* every one of them (no allocation is lost to a racing update of offset).
C11_ConcurrentAllocationsDisjoint ==
    NoJobHandedTwice =>
        /\ PairwiseDisjoint
        /\ \A i \in DOMAIN ranges : ranges[i].ptr + ranges[i].size <= arena.offset

\* C12: over a sequence of allocate calls by one thread with no reset in
\* between, no call lowers offset and the ranges of the successful calls are
\* pairwise disjoint.
C12_OffsetMonotonicRangesDisjoint ==
    /\ lastAlloc # NoCall => lastAlloc.before.offset <= arena.offset
    /\ PairwiseDisjoint

\* C13: a successful allocate(size, A), A a power of two, returns an offset
\* from the arena's base that is a multiple of A, and the smallest multiple of
\* A that is >= the offset before the call.  (The base address is itself a
\* multiple of A when A is not larger than its alignment, so the address
\* returned is a multiple of A as well.)
C13_AllocationIsAlignedUp ==
    (lastAlloc # NoCall /\ lastAlloc.ptr # NULL) =>
        /\ lastAlloc.ptr % lastAlloc.alignment = 0
        /\ lastAlloc.ptr = AlignUp(lastAlloc.before.offset, lastAlloc.alignment)
\* A successful allocate that had to round the offset up.
C13_RoundedUp ==
    /\ lastAlloc # NoCall
    /\ lastAlloc.ptr # NULL
    /\ lastAlloc.alignment > 1
    /\ lastAlloc.before.offset % lastAlloc.alignment # 0
    /\ lastAlloc.ptr > lastAlloc.before.offset

\* C14: right after a reset (from any arena state) only offset has changed
\* and it is 0, a second reset would change nothing, and the first successful
\* allocate after it returns the region that starts at offset 0.
C14_ResetRestartsAtZero ==
    /\ (resetFrom # NoCall /\ lastAlloc = NoCall) =>
          /\ arena = [resetFrom EXCEPT !.offset = 0]
          /\ reset(arena) = arena
    /\ ranges = <<>> => arena.offset = 0
    /\ Len(ranges) = 1 => ranges[1].ptr = 0
\* A reset of an arena in use, followed by a successful allocate.
C14_AllocatedAfterReset ==
    /\ resetFrom # NoCall
    /\ resetFrom.offset > 0
    /\ lastAlloc # NoCall
    /\ lastAlloc.ptr = 0
    /\ lastAlloc.size > 0
    /\ Len(ranges) = 1

\* Thread th has taken a job from deque 0 (its store to tail or its exchange
\* on head is done) and is about to read it from its slot.
Taking(th) == pc[th] \in {"pop_read_slot", "steal_read_slot"}
\* The job thread th is taking: jobs are numbered in push order.
Taken(th) ==
    JobAt(queue[0], IF pc[th] = "pop_read_slot" THEN loc[th].t ELSE loc[th].h).id
\* The jobs no longer in the deque for thread th: returned already, or being
\* taken by another thread.
Gone(th) ==
    DOMAIN handed \cup {Taken(o) : o \in {o \in ThreadIds \ {th} : Taking(o)}}

AllJoined == \A th \in 1 .. worker_count : pc[th] = "returned"
\* No thread is in the worker loop, holding or about to take a job.
NoThreadWorking == \A th \in ThreadIds : ~InWorkerLoop(th)

\* C16: the driver's check of remaining, and with it the reset, comes only
\* after every started thread has been joined; the arena is reset if and only
\* if the driver then reads remaining == 0; and when it resets no job is
\* queued in any deque and no thread is still working.
C16_ResetOnlyAfterJoinAndZero ==
    /\ pc[0] \in {"main_check", "main_done"} => AllJoined /\ NoThreadWorking
    /\ pc[0] = "main_done" => (ranges = <<>> /\ arena.offset = 0 <=> remaining = 0)
    /\ (pc[0] = "main_check" /\ remaining = 0) => NoJobQueued
\* The driver has joined, read remaining == 0 and reset the arena it had
\* allocated from.
C16_ResetDone ==
    /\ pc[0] = "main_done"
    /\ AllJoined
    /\ remaining = 0
    /\ arena.offset = 0
    /\ mem # <<>>

\* C17: every job that is in a deque slot, is being pushed, or has been taken
\* by a thread was counted into remaining before: the driver and a subdividing
\* sum_job add their number of jobs to remaining before their first push_job.
C17_CountedBeforePublished ==
    /\ \A w \in Workers : \A s \in DOMAIN queue[w].jobs :
          queue[w].jobs[s].id \in spawned
    /\ \A th \in ThreadIds :
          /\ pc[th] \in {"push_load_tail", "push_write_slot", "push_store_tail"}
                => loc[th].arg.id \in spawned
          /\ loc[th].job # NullJob => loc[th].job.id \in spawned
    /\ remaining <= Cardinality(spawned)
\* A child job of a subdividing sum_job is published in worker 0's deque, and
\* a thread has taken a job.
C17_ChildPublished ==
    /\ \E s \in DOMAIN queue[0].jobs :
          /\ ~queue[0].jobs[s].is_leaf
          /\ s < queue[0].tail
          /\ queue[0].jobs[s].id \in spawned
    /\ \E th \in ThreadIds : loc[th].job # NullJob

\* Thread th is in sum_job's subdivision, its two children in loc[th].args.
Subdividing(th) == Len(loc[th].args) = 2 /\ ~loc[th].leaf

\* C18: on a [0, N) workload every subdivision produces children [begin, mid)
\* and [mid, end) that partition the parent's range with begin < mid < end.
C18_ChildrenStrictlyShorter ==
    \A th \in ThreadIds : Subdividing(th) =>
        LET left == loc[th].args[1]
            right == loc[th].args[2]
            parent == mem[loc[th].job.data]
        IN /\ left.begin = parent.begin
           /\ left.end = right.begin
           /\ right.end = parent.end
           /\ left.begin < left.end
           /\ right.begin < right.end

\* C19: a failed arena allocation of a child payload is not swallowed: no job
\* whose payload pointer is null is pushed, lies in a deque, is taken by a
\* thread or is executed.
C19_NullPayloadNeverPublished ==
    /\ \A w \in Workers : \A s \in DOMAIN queue[w].jobs :
          queue[w].jobs[s].data # NULL
    /\ \A th \in ThreadIds :
          /\ pc[th] \in {"push_load_tail", "push_write_slot", "push_store_tail"}
                => loc[th].arg.data # NULL
          /\ loc[th].job # NullJob => loc[th].job.data # NULL
    /\ ub # "sum_job dereferences a null payload"

\* The run has used a slot index outside jobs[0 .. MAX_JOBS - 1].
IndexOutOfBounds ==
    ub \in {"push_job writes jobs[t] out of bounds",
            "pop_local reads jobs[t] out of bounds",
            "steal reads jobs[h] out of bounds"}

\* C20: every slot index push_job, pop_local and steal use is within
\* [0, MAX_JOBS), also when more than MAX_JOBS jobs are pushed over time, as
\* long as no push is made on a deque that holds MAX_JOBS jobs.
C20_SlotIndexInBounds ==
    IndexOutOfBounds => \E th \in ThreadIds : loc[th].storedOnFull

=============================================================================
